---- MODULE Spec2Model ----
(***************************************************************************)
(* Model of the EuroMillions database updater (go-euromillions-api-update) *)
(* and of the store it shares with the read service.                       *)
(*                                                                         *)
(* Go strings are modelled as sequences of one-character strings, so that  *)
(* date parsing, date formatting, strconv.Atoi and the byte-wise string    *)
(* comparison of the freshness check are computed the way the code         *)
(* computes them.                                                          *)
(***************************************************************************)
EXTENDS Integers, Sequences, FiniteSets, TLC

(***************************************************************************)
(* Bounds of the model.                                                    *)
(***************************************************************************)
\* an extraction yields between 7 - Slack and 7 + Slack numeric tokens (or none)
Slack == 1
\* how many of the draw dates of DrawTable the sources may publish
NumDates == 2

(***************************************************************************)
(* Strings.                                                                *)
(***************************************************************************)
DigitChars == <<"0", "1", "2", "3", "4", "5", "6", "7", "8", "9">>
UpperChars == <<"A", "B", "C", "D", "E", "F", "G", "H", "I", "J", "K", "L", "M",
                "N", "O", "P", "Q", "R", "S", "T", "U", "V", "W", "X", "Y", "Z">>
LowerChars == <<"a", "b", "c", "d", "e", "f", "g", "h", "i", "j", "k", "l", "m",
                "n", "o", "p", "q", "r", "s", "t", "u", "v", "w", "x", "y", "z">>

IndexIn(seq, c) == CHOOSE i \in 1..Len(seq) : seq[i] = c
InSeq(seq, c) == \E i \in 1..Len(seq) : seq[i] = c

IsDigit(c) == InSeq(DigitChars, c)
DigitVal(c) == IndexIn(DigitChars, c) - 1

\* the byte value of a character (ASCII), as Go's string comparison sees it
ByteOf(c) ==
    IF InSeq(DigitChars, c) THEN 47 + IndexIn(DigitChars, c)
    ELSE IF InSeq(UpperChars, c) THEN 64 + IndexIn(UpperChars, c)
    ELSE IF InSeq(LowerChars, c) THEN 96 + IndexIn(LowerChars, c)
    ELSE CASE c = "+" -> 43
           [] c = "," -> 44
           [] c = "-" -> 45
           [] c = "." -> 46
           [] c = "/" -> 47
           [] OTHER -> 32

ToLower(c) == IF InSeq(UpperChars, c) THEN LowerChars[IndexIn(UpperChars, c)] ELSE c

Min2(a, b) == IF a < b THEN a ELSE b

\* Go's s < t on strings: byte-wise lexicographic, a proper prefix is smaller
StrLess(s, t) ==
    LET n == Min2(Len(s), Len(t))
        diff == {i \in 1..n : s[i] # t[i]}
    IN  IF diff = {} THEN Len(s) < Len(t)
        ELSE LET k == CHOOSE i \in diff : \A j \in diff : i <= j
             IN  ByteOf(s[k]) < ByteOf(t[k])

AllDigits(s) == \A i \in 1..Len(s) : IsDigit(s[i])

RECURSIVE DigitsToNat(_)
DigitsToNat(s) ==
    IF s = <<>> THEN 0
    ELSE 10 * DigitsToNat(SubSeq(s, 1, Len(s) - 1)) + DigitVal(s[Len(s)])

\* decimal rendering of n in exactly w digits (n < 10^w)
RECURSIVE Pad(_, _)
Pad(n, w) == IF w = 0 THEN <<>> ELSE Pad(n \div 10, w - 1) \o <<DigitChars[(n % 10) + 1]>>

\* strconv.Atoi: an optional sign followed by at least one decimal digit
Atoi(s) ==
    LET signed == Len(s) > 0 /\ s[1] \in {"+", "-"}
        body == IF signed THEN SubSeq(s, 2, Len(s)) ELSE s
    IN  IF body = <<>> \/ ~AllDigits(body) THEN [ok |-> FALSE, val |-> 0]
        ELSE [ok |-> TRUE,
              val |-> IF signed /\ s[1] = "-" THEN 0 - DigitsToNat(body)
                      ELSE DigitsToNat(body)]

(***************************************************************************)
(* DateNormalizer: time.Parse with the source's layout, then               *)
(* t.Format("2006-01-02").                                                 *)
(***************************************************************************)
MonthNames == << <<"J","a","n">>, <<"F","e","b">>, <<"M","a","r">>, <<"A","p","r">>,
                 <<"M","a","y">>, <<"J","u","n">>, <<"J","u","l">>, <<"A","u","g">>,
                 <<"S","e","p">>, <<"O","c","t">>, <<"N","o","v">>, <<"D","e","c">> >>

IsLeap(y) == y % 4 = 0 /\ (y % 100 # 0 \/ y % 400 = 0)

DaysIn(m, y) ==
    IF m = 2 THEN (IF IsLeap(y) THEN 29 ELSE 28)
    ELSE IF m \in {4, 6, 9, 11} THEN 30 ELSE 31

NoTime == [ok |-> FALSE, year |-> 0, month |-> 0, day |-> 0]

\* the range checks time.Parse applies once the fields are read
CheckedTime(y, m, d) ==
    IF m < 1 \/ m > 12 \/ d < 1 \/ d > 31 \/ d > DaysIn(m, y) THEN NoTime
    ELSE [ok |-> TRUE, year |-> y, month |-> m, day |-> d]

\* time.Parse("02<sep>01<sep>2006", s): two-digit day, two-digit month,
\* four-digit year, nothing before, between or after
ParseDayMonthYear(sep, s) ==
    IF /\ Len(s) = 10
       /\ s[3] = sep /\ s[6] = sep
       /\ \A i \in {1, 2, 4, 5, 7, 8, 9, 10} : IsDigit(s[i])
    THEN CheckedTime(DigitsToNat(SubSeq(s, 7, 10)),
                     DigitsToNat(SubSeq(s, 4, 5)),
                     DigitsToNat(SubSeq(s, 1, 2)))
    ELSE NoTime

SameFold(a, b) == Len(a) = Len(b) /\ \A i \in 1..Len(a) : ToLower(a[i]) = ToLower(b[i])

\* time.Parse("02-Jan-2006", s): the month is a three-letter English name,
\* matched without regard to case
ParseDayMonYear(s) ==
    IF /\ Len(s) = 11
       /\ s[3] = "-" /\ s[7] = "-"
       /\ \A i \in {1, 2, 8, 9, 10, 11} : IsDigit(s[i])
       /\ \E m \in 1..12 : SameFold(MonthNames[m], SubSeq(s, 4, 6))
    THEN CheckedTime(DigitsToNat(SubSeq(s, 8, 11)),
                     CHOOSE m \in 1..12 : SameFold(MonthNames[m], SubSeq(s, 4, 6)),
                     DigitsToNat(SubSeq(s, 1, 2)))
    ELSE NoTime

\* t.Format("2006-01-02")
FormatISO(t) == Pad(t.year, 4) \o <<"-">> \o Pad(t.month, 2) \o <<"-">> \o Pad(t.day, 2)

\* the shape the date regexes of sites 3 and 4 capture: \d{2}<sep>\d{2}<sep>\d{4}
DateShape(sep, s) ==
    /\ Len(s) = 10
    /\ s[3] = sep /\ s[6] = sep
    /\ \A i \in {1, 2, 4, 5, 7, 8, 9, 10} : IsDigit(s[i])

(***************************************************************************)
(* What the upstream sources may publish.                                  *)
(***************************************************************************)
DrawTable == << [year |-> 2024, month |-> 1, day |-> 22],
                [year |-> 2023, month |-> 12, day |-> 29],
                [year |-> 2024, month |-> 2, day |-> 5],
                [year |-> 2024, month |-> 2, day |-> 9] >>

\* the draw of the week before, which the table may already hold
EarlierDraw == [year |-> 2024, month |-> 1, day |-> 15]

DrawDates == {DrawTable[i] : i \in 1..Min2(NumDates, Len(DrawTable))}

SiteSep(site) == CASE site = 2 -> "-" [] site = 3 -> "/" [] OTHER -> "."

\* a draw date the way a site prints it
Render(site, d) ==
    IF site = 5
    THEN Pad(d.day, 2) \o <<"-">> \o MonthNames[d.month] \o <<"-">> \o Pad(d.year, 4)
    ELSE Pad(d.day, 2) \o <<SiteSep(site)>> \o Pad(d.month, 2) \o <<SiteSep(site)>>
         \o Pad(d.year, 4)

\* a date that does not exist, in the site's own layout
NoSuchDay == [year |-> 2024, month |-> 2, day |-> 30]

\* date texts a site may show: every draw date in the site's layout, no date
\* at all, a date in another layout, a date that does not exist
RawDates(site) ==
    {Render(site, d) : d \in DrawDates}
        \cup {<<>>, FormatISO(DrawTable[1]), Render(site, NoSuchDay)}

TokenTable == << <<"3">>, <<"1","7">>, <<"2","2">>, <<"4","1">>, <<"4","9">>, <<"5">>,
                 <<"1","1">>, <<"8">>, <<"9">>, <<"1","2">>, <<"2","0">> >>

AltTokens == << <<"0","7">>, <<"2","1">>, <<"3","0">>, <<"3","3">>, <<"5","0">>,
                <<"0","2">>, <<"1","0">> >>

TokenCounts == {0} \cup {n \in (7 - Slack)..(7 + Slack) : n >= 0 /\ n <= Len(TokenTable)}

TokenLists == {SubSeq(TokenTable, 1, n) : n \in TokenCounts} \cup {AltTokens}

NoResponse == [kind |-> "none", date |-> <<>>, tokens |-> <<>>, section |-> FALSE,
               rows |-> <<>>]

\* an HTML page, reduced to what the site's recipe looks at: the text of the
\* date element, the digit runs of the results list, and whether the results
\* list is there at all
HtmlPages(site) ==
    {[kind |-> "html", date |-> d, tokens |-> t, section |-> TRUE, rows |-> <<>>] :
        d \in RawDates(site), t \in TokenLists}
    \cup
    {[kind |-> "html", date |-> d, tokens |-> <<>>, section |-> FALSE, rows |-> <<>>] :
        d \in RawDates(site)}

CsvHeader == << <<"D","r","a","w","D","a","t","e">>, <<"B","a","l","l","1">>,
                <<"B","a","l","l","2">>, <<"B","a","l","l","3">>, <<"B","a","l","l","4">>,
                <<"B","a","l","l","5">>, <<"S","t","a","r","1">>, <<"S","t","a","r","2">> >>

DataRow(rawDate, toks) == <<rawDate>> \o toks

\* a line the CSV reader cannot parse (a bare quote in an unquoted field)
BadLine == << <<"\"">> >>

OldRow == DataRow(Render(5, EarlierDraw), AltTokens)

\* the rows of a CSV body (blank lines are skipped by the reader and left out)
CsvRowLists ==
    {<<CsvHeader, DataRow(d, t)>> : d \in RawDates(5) \ {<<>>}, t \in {SubSeq(TokenTable, 1, 7), AltTokens}}
    \cup {<<CsvHeader, DataRow(Render(5, d), SubSeq(TokenTable, 1, 7)), OldRow>> : d \in DrawDates}
    \cup {<<CsvHeader \o << <<"N","o">> >>,
            DataRow(Render(5, d), SubSeq(TokenTable, 1, 8))>> : d \in DrawDates}
    \cup { <<>>,
           <<CsvHeader>>,
           <<CsvHeader, BadLine>>,
           <<BadLine, DataRow(Render(5, DrawTable[1]), AltTokens)>>,
           <<CsvHeader, DataRow(Render(5, DrawTable[1]), SubSeq(TokenTable, 1, 6))>>,
           <<SubSeq(CsvHeader, 1, 7), DataRow(Render(5, DrawTable[1]), SubSeq(TokenTable, 1, 6))>>,
           <<CsvHeader, DataRow(Render(5, DrawTable[1]),
                                SubSeq(TokenTable, 1, 6) \o << <<"x">> >>)>>,
           <<CsvHeader, DataRow(Render(5, DrawTable[1]),
                                << <<>> >> \o SubSeq(TokenTable, 1, 6))>> }

CsvBodies ==
    {[kind |-> "csv", date |-> <<>>, tokens |-> <<>>, section |-> FALSE, rows |-> r] :
        r \in CsvRowLists}

\* what a fetch of each site may return
Responses == [site \in 1..5 |-> IF site = 5 THEN CsvBodies ELSE HtmlPages(site)]

(***************************************************************************)
(* SourceAdapter: the five extraction recipes of runUpdate.                *)
(***************************************************************************)
Extracted(e, d, n) == [err |-> e, newDate |-> d, numbers |-> n]
Failed(e) == Extracted(e, <<>>, <<>>)

\* sites 1 and 2: the date text is parsed whatever it is, the numbers are all
\* the digit runs of the list (none when the list is not found)
ExtractPlain(sep, resp) ==
    LET t == ParseDayMonthYear(sep, resp.date)
    IN  IF ~t.ok THEN Failed("parse-date")
        ELSE Extracted("", FormatISO(t), resp.tokens)

\* site 3: a date regex, then one pattern that captures 5 + 2 numbers
ExtractSite3(resp) ==
    LET t == ParseDayMonthYear("/", resp.date)
    IN  IF ~DateShape("/", resp.date) THEN Failed("locate-date")
        ELSE IF ~t.ok THEN Failed("parse-date")
        ELSE IF Len(resp.tokens) < 7 THEN Failed("count-numbers")
        ELSE Extracted("", FormatISO(t), SubSeq(resp.tokens, 1, 7))

\* site 4: a date regex, the results list must be there and hold at least 7
ExtractSite4(resp) ==
    LET t == ParseDayMonthYear(".", resp.date)
    IN  IF ~DateShape(".", resp.date) THEN Failed("locate-date")
        ELSE IF ~t.ok THEN Failed("parse-date")
        ELSE IF ~resp.section THEN Failed("locate-numbers")
        ELSE IF Len(resp.tokens) < 7 THEN Failed("count-numbers")
        ELSE Extracted("", FormatISO(t), resp.tokens)

\* ExtractCsv that takes the last row of the file as the draw
ExtractCsvLastRow(resp) ==
    LET rows == resp.rows
        record == rows[Len(rows)]
        t == ParseDayMonYear(record[1])
        nums == SubSeq(record, 2, 8)
    IN  IF rows = <<>> \/ rows[1] = BadLine THEN Failed("csv-header")
        ELSE IF Len(rows) < 2 THEN Failed("csv-nodata")
        ELSE IF record = BadLine \/ Len(record) # Len(rows[1]) THEN Failed("csv-record")
        ELSE IF Len(record) < 8 THEN Failed("csv-columns")
        ELSE IF ~t.ok THEN Failed("parse-date")
        ELSE IF \E i \in 1..7 : ~Atoi(nums[i]).ok THEN Failed("non-numeric")
        ELSE Extracted("", FormatISO(t), nums)

\* site 5: header read and dropped, first data row, columns 0 and 1..7
ExtractCsv(resp) ==
    LET rows == resp.rows
        record == rows[2]
        t == ParseDayMonYear(record[1])
        nums == SubSeq(record, 2, 8)
    IN  IF rows = <<>> \/ rows[1] = BadLine THEN Failed("csv-header")
        ELSE IF Len(rows) < 2 THEN Failed("csv-nodata")
        ELSE IF record = BadLine \/ Len(record) # Len(rows[1]) THEN Failed("csv-record")
        ELSE IF Len(record) < 8 THEN Failed("csv-columns")
        ELSE IF ~t.ok THEN Failed("parse-date")
        ELSE IF \E i \in 1..7 : ~Atoi(nums[i]).ok THEN Failed("non-numeric")
        ELSE Extracted("", FormatISO(t), nums)

Extract(site, resp) ==
    CASE site = 1 -> ExtractPlain(".", resp)
      [] site = 2 -> ExtractPlain("-", resp)
      [] site = 3 -> ExtractSite3(resp)
      [] site = 4 -> ExtractSite4(resp)
      [] site = 5 -> ExtractCsv(resp)

(***************************************************************************)
(* State.                                                                  *)
(***************************************************************************)
VARIABLES
    store,        \* the rows of the results table
    pc,           \* where the updater process is; "stopped" when none runs
    siteIDStr,    \* the --site flag of the run
    queue,        \* the sites main still has to pass to runUpdate
    exitCode,     \* exit status of the last run, -1 before the first run ends
    logged,       \* whether main logged "Error processing site" on the last return
    siteID,       \* runUpdate: its argument
    oldDate,      \* runUpdate: the latest stored date it read
    response,     \* runUpdate: the payload it fetched
    newDate,      \* runUpdate: the canonical date it extracted
    numbers,      \* runUpdate: the number tokens it extracted
    err,          \* runUpdate: the error it returns, "" for nil
    outcome,      \* how the attempt resolved, "" while it runs
    before,       \* history: the store when the attempt began
    trail,        \* history: the steps the attempt has taken
    attempted,    \* history: the sites passed to runUpdate, this run
    fetched,      \* history: whether this run has issued a fetch
    runInserted,  \* history: the dates this run has inserted, with the site
    prev,         \* history: site, payload and outcome of the attempt before,
                  \*          kept until the next fetch
    ledger,       \* history: every row the table was given, in order
    repeat,       \* history: the outcome of the attempt before, when this
                  \*          attempt fetched the same payload from the same
                  \*          site, and "" otherwise
    request,      \* read service: the request it handled last
    reply         \* read service: the response to it; both are cleared once
                  \*               the updater moves on

vars == <<store, pc, siteIDStr, queue, exitCode, logged, siteID, oldDate, response,
          newDate, numbers, err, outcome, before, trail, attempted, fetched,
          runInserted, prev, ledger, repeat, request, reply>>

runVars == <<siteIDStr, queue, exitCode, logged, attempted>>
attemptVars == <<siteID, oldDate, response, newDate, numbers, err, outcome, before, trail>>

NoRequest == [method |-> "", route |-> "", rest |-> <<>>, format |-> <<>>, fault |-> FALSE]
NoReply == [status |-> 0, ctype |-> "", results |-> <<>>]

\* the updater takes a step: it makes no request to the read service, and
\* the response to the last request has been sent
NoRequestMade == request' = NoRequest /\ reply' = NoReply

(***************************************************************************)
(* PersistenceGateway: the results table, a sequence of rows in insertion  *)
(* order.                                                                  *)
(***************************************************************************)
\* Row with the two stars bound to the first two columns
RowStarsFirst(date, n) ==
    [date |-> date, number_1 |-> n[6], number_2 |-> n[7], number_3 |-> n[1],
     number_4 |-> n[2], number_5 |-> n[3], star_1 |-> n[4], star_2 |-> n[5]]

Row(date, n) ==
    [date |-> date, number_1 |-> n[1], number_2 |-> n[2], number_3 |-> n[3],
     number_4 |-> n[4], number_5 |-> n[5], star_1 |-> n[6], star_2 |-> n[7]]

Dates(rows) == {rows[i].date : i \in 1..Len(rows)}

\* LatestDate as of the start of the run: a cursor read once and carried
\* from attempt to attempt
LatestDateAtRunStart(rows) ==
    LET kept == SubSeq(rows, 1, Len(rows) - Cardinality(runInserted))
    IN  IF kept = <<>> THEN <<>>
        ELSE CHOOSE d \in Dates(kept) : \A e \in Dates(kept) : ~StrLess(d, e)

\* LatestDate under ORDER BY date ASC: the oldest date of the table
LatestDateOldest(rows) ==
    IF rows = <<>> THEN <<>>
    ELSE CHOOSE d \in Dates(rows) : \A e \in Dates(rows) : ~StrLess(e, d)

\* SELECT date FROM results ORDER BY date DESC LIMIT 1, scanned into a string
\* that stays "" when there is no row
LatestDate(rows) ==
    IF rows = <<>> THEN <<>>
    ELSE CHOOSE d \in Dates(rows) : \A e \in Dates(rows) : ~StrLess(d, e)

\* InsertDraw that overwrites the newest row instead of adding one
InsertDrawOverLast(rows, row) ==
    IF rows = <<>> THEN <<row>> ELSE [rows EXCEPT ![Len(rows)] = row]

\* InsertDraw with the statement executed twice
InsertDrawTwice(rows, row) == Append(Append(rows, row), row)

\* INSERT INTO results (...) VALUES (...)
InsertDraw(rows, row) == Append(rows, row)

AllArg == <<"a", "l", "l">>

\* values of the --site flag: the documented ones, and unsupported, signed,
\* non-numeric and missing ones
SiteArgs == {AllArg, <<"1">>, <<"2">>, <<"3">>, <<"4">>, <<"5">>, <<"6">>,
             <<"-", "1">>, <<"a", "b", "c">>, <<>>}

sitesToUpdate == <<1, 2, 3, 4, 5>>

NoPrev == [site |-> 0, response |-> NoResponse, outcome |-> ""]

\* stores the updater may find: an empty table, or one holding an earlier draw
InitStores == { <<>>, <<Row(FormatISO(EarlierDraw), SubSeq(TokenTable, 1, 7))>> }

Init ==
    /\ store \in InitStores
    /\ pc = "stopped"
    /\ siteIDStr = <<>>
    /\ queue = <<>>
    /\ exitCode = -1
    /\ logged = FALSE
    /\ siteID = 0
    /\ oldDate = <<>>
    /\ response = NoResponse
    /\ newDate = <<>>
    /\ numbers = <<>>
    /\ err = ""
    /\ outcome = ""
    /\ before = store
    /\ trail = <<>>
    /\ attempted = <<>>
    /\ fetched = FALSE
    /\ runInserted = {}
    /\ prev = NoPrev
    /\ ledger = store
    /\ repeat = ""
    /\ request = NoRequest
    /\ reply = NoReply

(***************************************************************************)
(* main.                                                                   *)
(***************************************************************************)
\* what main does with the --site flag: "usage", "all", "fatal" or "single"
Selection(arg) ==
    IF arg = <<>> THEN "usage"
    ELSE IF arg = AllArg THEN "all"
    ELSE IF ~Atoi(arg).ok THEN "fatal"
    ELSE "single"

SitesFor(arg) ==
    CASE Selection(arg) = "all" -> sitesToUpdate
      [] Selection(arg) = "single" -> <<Atoi(arg).val>>
      [] OTHER -> <<>>

\* a process is started with some --site flag (and a --database flag: without
\* one it prints the usage and exits 1, like a run without --site)
MainStart ==
    /\ UNCHANGED ledger
    /\ NoRequestMade
    /\ pc = "stopped"
    /\ \E arg \in SiteArgs :
        /\ siteIDStr' = arg
        /\ queue' = SitesFor(arg)
        /\ IF Selection(arg) \in {"usage", "fatal"}
           THEN pc' = "stopped" /\ exitCode' = 1
           ELSE pc' = "loop" /\ exitCode' = -1
    /\ logged' = FALSE
    /\ attempted' = <<>>
    /\ fetched' = FALSE
    /\ runInserted' = {}
    /\ siteID' = 0
    /\ oldDate' = <<>>
    /\ response' = NoResponse
    /\ newDate' = <<>>
    /\ numbers' = <<>>
    /\ err' = ""
    /\ outcome' = ""
    /\ before' = store
    /\ trail' = <<>>
    /\ repeat' = ""
    /\ UNCHANGED <<store, prev>>

\* main calls runUpdate for the next site, or returns when none is left
MainLoop ==
    /\ UNCHANGED ledger
    /\ NoRequestMade
    /\ pc = "loop"
    /\ IF queue = <<>>
       THEN /\ pc' = "stopped"
            /\ exitCode' = 0
            /\ UNCHANGED <<attempted, attemptVars, repeat>>
       ELSE /\ pc' = "query"
            /\ exitCode' = exitCode
            /\ siteID' = Head(queue)
            /\ attempted' = Append(attempted, Head(queue))
            /\ oldDate' = <<>>
            /\ response' = NoResponse
            /\ newDate' = <<>>
            /\ numbers' = <<>>
            /\ err' = ""
            /\ outcome' = ""
            /\ before' = store
            /\ trail' = <<"Idle">>
            /\ repeat' = ""
    /\ UNCHANGED <<store, siteIDStr, queue, logged, fetched, runInserted, prev>>

\* AfterAttempt that stops at the first error in every mode
AfterAttemptAbort(arg, e) == IF e # "" THEN "fatal" ELSE "next"

\* AfterAttempt that only logs the error in every mode
AfterAttemptIgnore(arg, e) == "next"

\* what main does when runUpdate returns e: "next", or "fatal" (log.Fatal)
AfterAttempt(arg, e) ==
    IF Selection(arg) = "all" THEN "next"
    ELSE IF e # "" THEN "fatal" ELSE "next"

\* runUpdate returns to main
MainReturn ==
    /\ UNCHANGED ledger
    /\ NoRequestMade
    /\ pc = "return"
    /\ logged' = (Selection(siteIDStr) = "all" /\ err # "")
    /\ IF AfterAttempt(siteIDStr, err) = "fatal"
       THEN pc' = "stopped" /\ exitCode' = 1 /\ queue' = queue
       ELSE pc' = "loop" /\ exitCode' = exitCode /\ queue' = Tail(queue)
    /\ trail' = Append(trail, IF err # "" THEN "Error" ELSE "Done")
    /\ prev' = [site |-> siteID, response |-> response, outcome |-> outcome]
    /\ UNCHANGED <<store, siteIDStr, attempted, fetched, runInserted, siteID, oldDate,
                   response, newDate, numbers, err, outcome, before, repeat>>

(***************************************************************************)
(* runUpdate, step by step.                                                *)
(***************************************************************************)
\* return fmt.Errorf(...)
ReturnError(e, step) ==
    /\ err' = e
    /\ outcome' = "Error"
    /\ pc' = "return"
    /\ trail' = Append(trail, step)

\* the latest stored date is read; a query error other than "no rows" ends
\* the attempt
QueryLatest ==
    /\ UNCHANGED ledger
    /\ NoRequestMade
    /\ pc = "query"
    /\ \E dbFault \in BOOLEAN :
        IF dbFault
        THEN /\ ReturnError("query", "ReadLatest")
             /\ oldDate' = oldDate
        ELSE /\ oldDate' = LatestDate(store)
             /\ pc' = "fetch"
             /\ trail' = Append(trail, "ReadLatest")
             /\ UNCHANGED <<err, outcome>>
    /\ UNCHANGED <<store, runVars, siteID, response, newDate, numbers, before,
                   fetched, runInserted, prev, repeat>>

\* switch siteID: the site's page or CSV is fetched; an id outside 1..5 is
\* rejected without a fetch
Fetch ==
    /\ UNCHANGED ledger
    /\ NoRequestMade
    /\ pc = "fetch"
    /\ IF siteID \notin 1..5
       THEN /\ ReturnError("unsupported", "Dispatch")
            /\ UNCHANGED <<response, fetched, repeat>>
       ELSE /\ fetched' = TRUE
            /\ \/ /\ ReturnError("fetch", "Fetching")
                  /\ response' = response
                  /\ repeat' = ""
               \/ \E r \in Responses[siteID] :
                     /\ response' = r
                     /\ repeat' = IF prev.site = siteID /\ prev.response = r
                                  THEN prev.outcome ELSE ""
                     /\ pc' = "extract"
                     /\ trail' = Append(trail, "Fetching")
                     /\ UNCHANGED <<err, outcome>>
    /\ prev' = NoPrev
    /\ UNCHANGED <<store, runVars, siteID, oldDate, newDate, numbers, before,
                   runInserted>>

\* the site's recipe yields newDate and numbers, or an error
ExtractStep ==
    /\ UNCHANGED ledger
    /\ NoRequestMade
    /\ pc = "extract"
    /\ LET x == Extract(siteID, response)
       IN  IF x.err # ""
           THEN /\ ReturnError(x.err, "Extracting")
                /\ UNCHANGED <<newDate, numbers>>
           ELSE /\ newDate' = x.newDate
                /\ numbers' = x.numbers
                /\ pc' = "compare"
                /\ trail' = Append(trail, "Extracting")
                /\ UNCHANGED <<err, outcome>>
    /\ UNCHANGED <<store, runVars, siteID, oldDate, response, before, fetched,
                   runInserted, prev, repeat>>

\* Decision that takes a table without rows as holding nothing to compare with
DecisionNeedsLatest(new, old, nums) ==
    IF new = old THEN "SkipSame"
    ELSE IF old # <<>> /\ StrLess(old, new)
         THEN (IF Len(nums) # 7 THEN "Invalid" ELSE "Persisting")
         ELSE "SkipStale"

\* Decision with the guard against older dates left out
DecisionAnyOther(new, old, nums) ==
    IF new = old THEN "SkipSame"
    ELSE IF Len(nums) # 7 THEN "Invalid" ELSE "Persisting"

\* Decision with >= in place of >
DecisionOrEqual(new, old, nums) ==
    IF new = old \/ StrLess(old, new)
    THEN (IF Len(nums) # 7 THEN "Invalid" ELSE "Persisting")
    ELSE "SkipStale"

\* Decision that reports an older date as an error
DecisionStaleFails(new, old, nums) ==
    IF new = old THEN "SkipSame"
    ELSE IF StrLess(old, new) /\ Len(nums) = 7 THEN "Persisting"
    ELSE "Invalid"

\* the freshness decision: same date, newer date (then the count check), or
\* older date
Decision(new, old, nums) ==
    IF new = old THEN "SkipSame"
    ELSE IF StrLess(old, new)
         THEN (IF Len(nums) # 7 THEN "Invalid" ELSE "Persisting")
         ELSE "SkipStale"

Compare ==
    /\ UNCHANGED ledger
    /\ NoRequestMade
    /\ pc = "compare"
    /\ LET d == Decision(newDate, oldDate, numbers)
       IN  CASE d = "Invalid" ->
                  ReturnError("count-numbers", "ComparingDate")
             [] d = "Persisting" ->
                  /\ pc' = "insert"
                  /\ trail' = Append(trail, "ComparingDate")
                  /\ UNCHANGED <<err, outcome>>
             [] OTHER ->
                  /\ outcome' = d
                  /\ pc' = "return"
                  /\ trail' = Append(Append(trail, "ComparingDate"), d)
                  /\ err' = err
    /\ UNCHANGED <<store, runVars, siteID, oldDate, response, newDate, numbers,
                   before, fetched, runInserted, prev, repeat>>

\* the INSERT is prepared and executed; either may fail
Insert ==
    /\ pc = "insert"
    /\ NoRequestMade
    /\ \E dbFault \in BOOLEAN :
        IF dbFault
        THEN /\ ReturnError("persist", "Persisting")
             /\ UNCHANGED <<store, runInserted, ledger>>
        ELSE /\ store' = InsertDraw(store, Row(newDate, numbers))
             /\ ledger' = Append(ledger, Row(newDate, numbers))
             /\ runInserted' = runInserted \cup {[site |-> siteID, date |-> newDate]}
             /\ outcome' = "Persisted"
             /\ pc' = "return"
             /\ trail' = Append(trail, "Persisting")
             /\ err' = err
    /\ UNCHANGED <<runVars, siteID, oldDate, response, newDate, numbers, before,
                   fetched, prev, repeat>>

Next ==
    \/ MainStart
    \/ MainLoop
    \/ QueryLatest
    \/ Fetch
    \/ ExtractStep
    \/ Compare
    \/ Insert
    \/ MainReturn

Spec == Init /\ [][Next]_vars

(***************************************************************************)
(* Two updater processes on one database file: the process above, and a    *)
(* second one whose INSERT lands between a read of the latest date and the *)
(* INSERT that follows it.  The table is the one the persisted schema      *)
(* describes, keyed by unique date.                                        *)
(***************************************************************************)
\* an attempt of the second process inserts at most this many rows while an
\* attempt of the first is between its read and its INSERT
MaxRival == 1

\* INSERT into a table keyed by unique date: a date the table holds is refused
InsertDrawUnique(rows, row) ==
    IF row.date \in Dates(rows)
    THEN [rows |-> rows, err |-> "unique"]
    ELSE [rows |-> InsertDraw(rows, row), err |-> ""]

\* AfterExec with the error of stmt.Exec dropped
AfterExecIgnored(e) == ""

\* if err != nil { return fmt.Errorf("failed to execute SQL statement: %v", err) }
AfterExec(e) == IF e # "" THEN "persist" ELSE ""

\* the INSERT is prepared and executed on the keyed table
InsertKeyed ==
    /\ pc = "insert"
    /\ NoRequestMade
    /\ \E dbFault \in BOOLEAN :
        IF dbFault
        THEN /\ ReturnError("persist", "Persisting")
             /\ UNCHANGED <<store, runInserted, ledger>>
        ELSE LET row == Row(newDate, numbers)
                 r == InsertDrawUnique(store, row)
             IN  /\ store' = r.rows
                 /\ ledger' = IF r.err = "" THEN Append(ledger, row) ELSE ledger
                 /\ runInserted' = IF r.err = ""
                                   THEN runInserted \cup {[site |-> siteID, date |-> newDate]}
                                   ELSE runInserted
                 /\ IF AfterExec(r.err) # ""
                    THEN ReturnError(AfterExec(r.err), "Persisting")
                    ELSE /\ outcome' = "Persisted"
                         /\ pc' = "return"
                         /\ trail' = Append(trail, "Persisting")
                         /\ err' = err
    /\ UNCHANGED <<runVars, siteID, oldDate, response, newDate, numbers, before,
                   fetched, prev, repeat>>

\* the numbers the second process extracted
RivalNumbers == SubSeq(TokenTable, 5, 11)

\* the second process completes an attempt of its own: it had read the latest
\* date when the table held its first k rows, found its date newer, and its
\* INSERT is accepted
OtherWriter ==
    /\ pc \in {"fetch", "extract", "compare", "insert"}
    /\ NoRequestMade
    /\ Len(store) - Len(before) < MaxRival
    /\ \E d \in DrawDates : \E k \in 0..Len(store) :
          LET row == Row(FormatISO(d), RivalNumbers)
              r == InsertDrawUnique(store, row)
          IN  /\ Decision(row.date, LatestDate(SubSeq(store, 1, k)), RivalNumbers)
                    = "Persisting"
              /\ r.err = ""
              /\ store' = r.rows
              /\ ledger' = Append(ledger, row)
    /\ UNCHANGED <<pc, runVars, attemptVars, fetched, runInserted, prev, repeat>>

\* the --site values of the runs that are raced
RaceArgs == {<<"1">>, <<"5">>}

RaceStart == MainStart /\ siteIDStr' \in RaceArgs

RaceNext ==
    \/ RaceStart
    \/ MainLoop
    \/ QueryLatest
    \/ Fetch
    \/ ExtractStep
    \/ Compare
    \/ InsertKeyed
    \/ OtherWriter
    \/ MainReturn

RaceSpec == Init /\ [][RaceNext]_vars

(***************************************************************************)
(* The read service (go-euromillions-api): six routes over the same table. *)
(***************************************************************************)
\* time.Parse("2006-01-02", s)
ParseISODate(s) ==
    IF /\ Len(s) = 10
       /\ s[5] = "-" /\ s[8] = "-"
       /\ \A i \in {1, 2, 3, 4, 6, 7, 9, 10} : IsDigit(s[i])
    THEN CheckedTime(DigitsToNat(SubSeq(s, 1, 4)),
                     DigitsToNat(SubSeq(s, 6, 7)),
                     DigitsToNat(SubSeq(s, 9, 10)))
    ELSE NoTime

\* time.Parse("2006", s)
ParseYear(s) ==
    IF Len(s) = 4 /\ AllDigits(s) THEN CheckedTime(DigitsToNat(s), 1, 1) ELSE NoTime

\* time.Parse("2006-01", s)
ParseYearMonth(s) ==
    IF /\ Len(s) = 7
       /\ s[5] = "-"
       /\ \A i \in {1, 2, 3, 4, 6, 7} : IsDigit(s[i])
    THEN CheckedTime(DigitsToNat(SubSeq(s, 1, 4)), DigitsToNat(SubSeq(s, 6, 7)), 1)
    ELSE NoTime

\* strings.Split(s, "-")
RECURSIVE SplitDash(_)
SplitDash(s) ==
    IF ~InSeq(s, "-") THEN <<s>>
    ELSE LET k == CHOOSE i \in 1..Len(s) : s[i] = "-" /\ \A j \in 1..(i - 1) : s[j] # "-"
         IN  <<SubSeq(s, 1, k - 1)>> \o SplitDash(SubSeq(s, k + 1, Len(s)))

\* strings.ToLower
LowerCase(s) == [i \in 1..Len(s) |-> ToLower(s[i])]

\* strftime('%Y', date) and strftime('%m', date) of a stored date: NULL (no
\* match) unless the text is a date; the updater stores calendar dates in
\* YYYY-MM-DD form, of which these are the first four and the middle two
\* characters
Strftime(field, date) ==
    IF ~ParseISODate(date).ok THEN <<"N", "U", "L", "L">>
    ELSE IF field = "%Y" THEN SubSeq(date, 1, 4) ELSE SubSeq(date, 6, 7)

\* ORDER BY date DESC
RECURSIVE OrderByDateDesc(_)
OrderByDateDesc(rows) ==
    IF rows = <<>> THEN <<>>
    ELSE LET top == CHOOSE i \in 1..Len(rows) :
                        /\ \A j \in 1..Len(rows) : ~StrLess(rows[i].date, rows[j].date)
                        /\ \A j \in 1..(i - 1) : rows[j].date # rows[i].date
         IN  <<rows[top]>>
                 \o OrderByDateDesc(SubSeq(rows, 1, top - 1) \o SubSeq(rows, top + 1, Len(rows)))

\* a number column read into a Go int: the decimal value of what was stored
ScanInt(v) == Atoi(v)

\* ScanRow with the two star columns scanned first
ScanRowStarsFirst(r) ==
    LET n == <<ScanInt(r.star_1), ScanInt(r.star_2), ScanInt(r.number_1),
               ScanInt(r.number_2), ScanInt(r.number_3), ScanInt(r.number_4),
               ScanInt(r.number_5)>>
    IN  [ok |-> \A i \in 1..7 : n[i].ok,
         result |-> [Date |-> r.date,
                     Numbers |-> <<n[1].val, n[2].val, n[3].val, n[4].val, n[5].val>>,
                     Stars |-> <<n[6].val, n[7].val>>]]

\* rows.Scan(&res.Date, &n1, ..., &s2), then Numbers = []int{n1..n5} and
\* Stars = []int{s1, s2}
ScanRow(r) ==
    LET n == <<ScanInt(r.number_1), ScanInt(r.number_2), ScanInt(r.number_3),
               ScanInt(r.number_4), ScanInt(r.number_5), ScanInt(r.star_1),
               ScanInt(r.star_2)>>
    IN  [ok |-> \A i \in 1..7 : n[i].ok,
         result |-> [Date |-> r.date,
                     Numbers |-> <<n[1].val, n[2].val, n[3].val, n[4].val, n[5].val>>,
                     Stars |-> <<n[6].val, n[7].val>>]]

\* http.Error(w, ..., code) and http.NotFound
httpError(code) == [status |-> code, ctype |-> "text/plain", results |-> <<>>]

\* sendResponse: the format parameter picks the encoding, JSON by default
sendResponse(req, results) ==
    LET format == LowerCase(req.format)
    IN  [status |-> 200,
         ctype |-> IF format = <<"x", "m", "l">> THEN "application/xml"
                   ELSE IF format = <<"p", "l", "a", "i", "n", "t", "e", "x", "t">>
                        THEN "text/plain"
                        ELSE "application/json",
         results |-> results]

\* the loop over rows.Next() of getAllResults, yearHandler and
\* monthYearHandler, and what follows it
sendRows(req, rows) ==
    IF \E i \in 1..Len(rows) : ~ScanRow(rows[i]).ok THEN httpError(500)
    ELSE IF rows = <<>> THEN httpError(404)
    ELSE sendResponse(req, [i \in 1..Len(rows) |-> ScanRow(rows[i]).result])

\* QueryRow(...).Scan(...) of latestHandler and dateHandler, and what follows
sendRow(req, rows) ==
    IF rows = <<>> THEN httpError(404)
    ELSE IF ~ScanRow(rows[1]).ok THEN httpError(500)
    ELSE sendResponse(req, <<ScanRow(rows[1]).result>>)

resultsHandler(req, rows, dbFault) ==
    IF req.method # "GET" THEN httpError(405)
    ELSE IF dbFault THEN httpError(500)
    ELSE sendRows(req, OrderByDateDesc(rows))

latestHandler(req, rows, dbFault) ==
    IF req.method # "GET" THEN httpError(405)
    ELSE IF dbFault THEN httpError(500)
    ELSE sendRow(req, OrderByDateDesc(rows))

defaultHandler(req, rows, dbFault) ==
    IF req.method # "GET" \/ req.rest # <<>> THEN httpError(404)
    ELSE latestHandler(req, rows, dbFault)

dateHandler(req, rows, dbFault) ==
    IF req.method # "GET" THEN httpError(405)
    ELSE IF req.rest = <<>> THEN httpError(400)
    ELSE IF ~ParseISODate(req.rest).ok THEN httpError(400)
    ELSE IF dbFault THEN httpError(500)
    ELSE sendRow(req, SelectSeq(rows, LAMBDA r : r.date = req.rest))

yearHandler(req, rows, dbFault) ==
    IF req.method # "GET" THEN httpError(405)
    ELSE IF req.rest = <<>> THEN httpError(400)
    ELSE IF ~ParseYear(req.rest).ok THEN httpError(400)
    ELSE IF dbFault THEN httpError(500)
    ELSE sendRows(req, OrderByDateDesc(
                           SelectSeq(rows, LAMBDA r : Strftime("%Y", r.date) = req.rest)))

monthYearHandler(req, rows, dbFault) ==
    LET parts == SplitDash(req.rest)
    IN  IF req.method # "GET" THEN httpError(405)
        ELSE IF req.rest = <<>> THEN httpError(400)
        ELSE IF Len(parts) # 2 THEN httpError(400)
        ELSE IF ~ParseYearMonth(req.rest).ok THEN httpError(400)
        ELSE IF dbFault THEN httpError(500)
        ELSE sendRows(req, OrderByDateDesc(
                               SelectSeq(rows, LAMBDA r :
                                   /\ Strftime("%Y", r.date) = parts[1]
                                   /\ Strftime("%m", r.date) = parts[2])))

\* what clients may send
Methods == {"GET", "POST"}
Formats == {<<>>, <<"X", "m", "l">>, <<"p", "l", "a", "i", "n", "t", "e", "x", "t">>}

\* dates asked for: every date the table may hold, one it never holds, no
\* date, a day that does not exist, a date in another layout, a cut date
AskedDates == {FormatISO(d) : d \in DrawDates \cup {EarlierDraw}}
DateParams ==
    AskedDates \cup {<<>>, FormatISO(DrawTable[Len(DrawTable)]), FormatISO(NoSuchDay),
                     Render(1, DrawTable[1]), SubSeq(FormatISO(DrawTable[1]), 1, 9)}
YearParams ==
    {SubSeq(d, 1, 4) : d \in AskedDates}
        \cup {<<>>, <<"1", "9", "9", "9">>, <<"2", "4">>, <<"y", "e", "a", "r">>,
              SubSeq(FormatISO(DrawTable[1]), 1, 5)}
MonthParams ==
    {SubSeq(d, 1, 7) : d \in AskedDates}
        \cup {<<>>, <<"1", "9", "9", "9", "-", "0", "1">>, FormatISO(DrawTable[1]),
              SubSeq(FormatISO(DrawTable[1]), 1, 4), SubSeq(FormatISO(DrawTable[1]), 1, 6),
              SubSeq(FormatISO(DrawTable[1]), 1, 5) \o <<"1", "3">>}

updaterVars == <<store, pc, siteIDStr, queue, exitCode, logged, siteID, oldDate,
                 response, newDate, numbers, err, outcome, before, trail, attempted,
                 fetched, runInserted, prev, ledger, repeat>>

\* a request as the server sees it: the method, the registered pattern that
\* matched its path, the rest of the path and the format parameter; with it,
\* whether the database fails the query made for it
Request(m, route, rest, f, dbFault) ==
    [method |-> m, route |-> route, rest |-> rest, format |-> f, fault |-> dbFault]

\* the table changes only at an INSERT: requests are taken right before one,
\* right after one, and after the run that made one has ended
ServePoint ==
    \/ pc = "insert"
    \/ pc \in {"return", "stopped"} /\ outcome = "Persisted"

\* Answer that has the updater look for a new draw before it replies
AnswerRefreshing(req, rep) ==
    /\ ServePoint
    /\ request = NoRequest
    /\ request' = req
    /\ reply' = rep
    /\ pc' = "loop"
    /\ queue' = sitesToUpdate
    /\ UNCHANGED <<store, siteIDStr, exitCode, logged, siteID, oldDate, response,
                   newDate, numbers, err, outcome, before, trail, attempted, fetched,
                   runInserted, prev, ledger, repeat>>

\* the server answers a request from the table as it stands, one request at
\* a time
Answer(req, rep) ==
    /\ ServePoint
    /\ request = NoRequest
    /\ request' = req
    /\ reply' = rep
    /\ UNCHANGED updaterVars

\* http.HandleFunc("/", defaultHandler): every path no other pattern matches
HandleDefault ==
    \E m \in Methods, rest \in {<<>>, <<"x">>}, f \in Formats, dbFault \in BOOLEAN :
        Answer(Request(m, "/", rest, f, dbFault),
               defaultHandler(Request(m, "/", rest, f, dbFault), store, dbFault))

HandleResults ==
    \E m \in Methods, f \in Formats, dbFault \in BOOLEAN :
        Answer(Request(m, "/results", <<>>, f, dbFault),
               resultsHandler(Request(m, "/results", <<>>, f, dbFault), store, dbFault))

HandleLatest ==
    \E m \in Methods, f \in Formats, dbFault \in BOOLEAN :
        Answer(Request(m, "/results/latest", <<>>, f, dbFault),
               latestHandler(Request(m, "/results/latest", <<>>, f, dbFault), store, dbFault))

HandleDate ==
    \E m \in Methods, rest \in DateParams, f \in Formats, dbFault \in BOOLEAN :
        Answer(Request(m, "/results/date/", rest, f, dbFault),
               dateHandler(Request(m, "/results/date/", rest, f, dbFault), store, dbFault))

HandleYear ==
    \E m \in Methods, rest \in YearParams, f \in Formats, dbFault \in BOOLEAN :
        Answer(Request(m, "/results/year/", rest, f, dbFault),
               yearHandler(Request(m, "/results/year/", rest, f, dbFault), store, dbFault))

HandleMonthYear ==
    \E m \in Methods, rest \in MonthParams, f \in Formats, dbFault \in BOOLEAN :
        Answer(Request(m, "/results/month/", rest, f, dbFault),
               monthYearHandler(Request(m, "/results/month/", rest, f, dbFault), store, dbFault))

\* the --site values of the updater runs that fill the table the server reads
ServeArgs == {<<"5">>}

ServeStart == MainStart /\ siteIDStr' \in ServeArgs

ServeNext ==
    \/ ServeStart
    \/ MainLoop
    \/ QueryLatest
    \/ Fetch
    \/ ExtractStep
    \/ Compare
    \/ Insert
    \/ MainReturn
    \/ HandleDefault
    \/ HandleResults
    \/ HandleLatest
    \/ HandleDate
    \/ HandleYear
    \/ HandleMonthYear

ServeSpec == Init /\ [][ServeNext]_vars

(***************************************************************************)
(* Properties.                                                             *)
(***************************************************************************)
InTrail(step) == \E i \in 1..Len(trail) : trail[i] = step

IsPrefix(a, b) == Len(a) <= Len(b) /\ SubSeq(b, 1, Len(a)) = a

AllMode == Selection(siteIDStr) = "all"
SingleMode == Selection(siteIDStr) = "single"

\* the attempt got a date and numbers out of its payload
HasExtracted == InTrail("Extracting") /\ newDate # <<>>

MainOf(r) == <<r.number_1, r.number_2, r.number_3, r.number_4, r.number_5>>
StarsOf(r) == <<r.star_1, r.star_2>>

RowsDated(rows, d) == {i \in 1..Len(rows) : rows[i].date = d}

\* C1: an attempt whose extracted date is strictly earlier than the latest
\* stored date it read leaves the store as it found it, whatever its numbers
\* are, and no row an attempt adds has a date below the latest date it read.
C1_MonotonicGuard ==
    /\ (HasExtracted /\ StrLess(newDate, oldDate)) => store = before
    /\ \A i \in 1..Len(store) :
          i > Len(before) => ~StrLess(store[i].date, oldDate)
    /\ IsPrefix(before, store)

\* C1 witness: an attempt resolved a well-formed older record as stale.
C1_Witness ==
    /\ pc = "return"
    /\ outcome = "SkipStale"
    /\ Len(numbers) = 7
    /\ StrLess(newDate, oldDate)

C3_PersistNewer ==
    (pc = "return" /\ HasExtracted /\ StrLess(oldDate, newDate) /\ Len(numbers) = 7
        /\ err # "persist")
        => /\ outcome = "Persisted"
           /\ Len(store) = Len(before) + 1
           /\ IsPrefix(before, store)
           /\ LET r == store[Len(store)]
              IN  /\ r.date = newDate
                  /\ MainOf(r) = SubSeq(numbers, 1, 5)
                  /\ StarsOf(r) = SubSeq(numbers, 6, 7)
                  /\ response.kind = "html"
                        => /\ MainOf(r) = SubSeq(response.tokens, 1, 5)
                           /\ StarsOf(r) = SubSeq(response.tokens, 6, 7)

\* C3 witness: latest 2024-01-15, extracted 2024-01-22 with 3 17 22 41 49 5 11,
\* persisted as main 3 17 22 41 49 and stars 5 11.
C3_Witness ==
    /\ pc = "return"
    /\ outcome = "Persisted"
    /\ oldDate = <<"2","0","2","4","-","0","1","-","1","5">>
    /\ newDate = <<"2","0","2","4","-","0","1","-","2","2">>
    /\ MainOf(store[Len(store)]) = << <<"3">>, <<"1","7">>, <<"2","2">>, <<"4","1">>, <<"4","9">> >>
    /\ StarsOf(store[Len(store)]) = << <<"5">>, <<"1","1">> >>

\* the freshness comparison found the extracted date equal to, or earlier
\* than, the latest stored date
SameOrStale ==
    /\ InTrail("ComparingDate")
    /\ newDate = oldDate \/ StrLess(newDate, oldDate)

\* C4: an attempt whose date equals the latest stored date (SkipSame) or is
\* earlier (SkipStale) returns no error; in single-source mode the run then
\* exits with status 0, and in "all" mode main logs no error for the source.
C4_SkipsAreNotErrors ==
    /\ (pc = "return" /\ SameOrStale)
          => err = "" /\ outcome \in {"SkipSame", "SkipStale"}
    /\ (pc \in {"loop", "stopped"} /\ SameOrStale) => exitCode # 1 /\ ~logged
    /\ (pc = "stopped" /\ SingleMode /\ SameOrStale) => exitCode = 0

\* C4 witness: a single-source run that ended on a stale record.
C4_Witness ==
    /\ pc = "stopped"
    /\ SingleMode
    /\ outcome = "SkipStale"
    /\ exitCode = 0

\* C5: error isolation in "all" mode: the sources are passed to runUpdate
\* once each in the order 1,2,3,4,5; an error of an attempt, at whatever
\* stage, is logged and the loop goes on to the next source (main can always
\* take the attempt's result and go round the loop, and an attempt is at most
\* seven steps long); the run ends only with all five attempted, status 0.
C5_ErrorIsolation ==
    AllMode =>
        /\ IsPrefix(attempted, sitesToUpdate)
        /\ pc # "stopped" => exitCode = -1
        /\ pc = "return" => ENABLED MainReturn
        /\ pc = "loop" => ENABLED MainLoop
        /\ Len(trail) <= 7
        /\ pc \notin {"loop", "stopped"} => siteID = attempted[Len(attempted)]
        /\ pc = "stopped" => attempted = sitesToUpdate /\ exitCode = 0
        /\ (pc = "loop" /\ attempted # <<>>) =>
              /\ logged = (err # "")
              /\ Len(queue) = Len(sitesToUpdate) - Len(attempted)

\* C5 witness: source 5 is being attempted right after source 4 failed.
C5_Witness ==
    /\ AllMode
    /\ pc = "fetch"
    /\ siteID = 5
    /\ attempted = sitesToUpdate
    /\ prev.site = 4
    /\ prev.outcome = "Error"

\* a process has run and has exited
RunEnded == pc = "stopped" /\ exitCode # -1

\* a --site value that selects none of the sources 1..5 and is not "all"
Unsupported(arg) ==
    \/ Selection(arg) \in {"fatal", "usage"}
    \/ Selection(arg) = "single" /\ Atoi(arg).val \notin 1..5

\* C6: in single-source mode an attempt that returns an error ends the run
\* with exit status 1 and nothing runs after it; a --site value that is
\* neither "all" nor one of 1..5 ends the run with status 1 without any fetch
\* and without any insert.
C6_SingleModeErrors ==
    /\ SingleMode =>
          /\ RunEnded /\ err # "" => exitCode = 1
          /\ pc = "loop" => err = ""
          /\ Len(attempted) <= 1
    /\ Unsupported(siteIDStr) =>
          /\ ~fetched
          /\ store = before
          /\ pc \notin {"extract", "compare", "insert"}
          /\ RunEnded => exitCode = 1

\* C6 witness: --site 6 ended in the "unsupported site ID" error, status 1.
C6_Witness ==
    /\ pc = "stopped"
    /\ siteIDStr = <<"6">>
    /\ err = "unsupported"
    /\ exitCode = 1
    /\ ~fetched

\* the greatest date of a table, <<>> for an empty one
Newest(rows) ==
    IF rows = <<>> THEN <<>>
    ELSE CHOOSE d \in Dates(rows) : \A e \in Dates(rows) : ~StrLess(d, e)

\* an earlier source of this "all" run inserted the date this attempt extracted
InsertedEarlier(site) ==
    AllMode /\ pc = "return" /\ HasExtracted
        /\ [site |-> site, date |-> newDate] \in runInserted /\ site < siteID

\* C7 as claimed: when source 1 has inserted date D in an "all" run, source 4
\* yielding D compares against latest = D and resolves to SkipSame without an
\* insert.
C7_AlwaysSkipSame ==
    (siteID = 4 /\ InsertedEarlier(1))
        => /\ oldDate = newDate
           /\ outcome = "SkipSame"
           /\ ~InTrail("Persisting")

\* C7 amended: every attempt compares against the latest date of the store as
\* it is when the attempt starts; when an earlier source of the same "all" run
\* has inserted date D, a later source yielding D finds latest >= D and makes
\* no insert: it resolves to SkipSame if no source in between inserted a
\* later date (latest = D), and to SkipStale otherwise.
C7_CursorReread ==
    /\ (InTrail("ReadLatest") /\ err # "query") => oldDate = Newest(before)
    /\ \A s \in 1..5 :
          InsertedEarlier(s) =>
              /\ ~StrLess(oldDate, newDate)
              /\ ~InTrail("Persisting")
              /\ store = before
              /\ outcome = IF \E f \in runInserted : StrLess(newDate, f.date)
                           THEN "SkipStale" ELSE "SkipSame"
              /\ outcome = "SkipSame" <=> oldDate = newDate

\* C7 witness: source 4 skips, as the same date, the date source 1 inserted.
C7_Witness ==
    /\ siteID = 4
    /\ InsertedEarlier(1)
    /\ outcome = "SkipSame"
    /\ oldDate = newDate

\* C8: no row is ever deleted or changed: every row the table was ever given
\* (the rows it started with and the rows inserted since) is still in it,
\* unchanged and in insertion order, so the table at a later state extends the
\* table at any earlier state; the latest date read by an attempt is never
\* above the latest date now stored, so the latest stored date never decreases.
C8_AppendOnly ==
    /\ store = ledger
    /\ IsPrefix(before, store)
    /\ (InTrail("ReadLatest") /\ err # "query") => ~StrLess(Newest(store), oldDate)

\* C8 witness: a row was appended to a table that already held rows.
C8_Witness ==
    /\ pc = "return"
    /\ outcome = "Persisted"
    /\ Len(store) >= 2
    /\ IsPrefix(before, store)

\* C9 as claimed: an extraction whose token count is not 7 ends the attempt
\* in a validation error, whatever the relation between the extracted date
\* and the latest stored date.
C9_RejectsWrongCount ==
    (pc = "return" /\ HasExtracted /\ Len(numbers) # 7)
        => outcome = "Error" /\ err = "count-numbers"

CountOf(steps) == Cardinality({i \in 1..Len(trail) : trail[i] \in steps})

\* the parts of the stage order that do not depend on where the count is
\* validated
StageOrderRest ==
    /\ InTrail("ComparingDate") => InTrail("Fetching") /\ InTrail("Extracting")
    /\ InTrail("Extracting") => InTrail("Fetching")
    /\ CountOf({"SkipSame", "SkipStale", "Persisting"}) <= 1
    /\ CountOf({"SkipSame", "SkipStale", "Persisting"}) = 1 => InTrail("ComparingDate")
    /\ CountOf({"Done", "Error"}) <= 1
    /\ (pc \in {"loop", "stopped"} /\ trail # <<>>) =>
          /\ trail[1] = "Idle"
          /\ trail[Len(trail)] \in {"Done", "Error"}
          /\ trail[Len(trail)] = "Done" =>
                CountOf({"SkipSame", "SkipStale", "Persisting"}) = 1

\* C10 as claimed: an attempt goes Idle, Fetching, Extracting, Validating,
\* ComparingDate, one of SkipSame / SkipStale / Persisting, Done, or to Error
\* from any stage: the date comparison is reached only once fetching,
\* extraction and the count validation have succeeded, and the attempt ends
\* in exactly one of Done and Error.
C10_StageOrder ==
    /\ StageOrderRest
    /\ InTrail("ComparingDate") => Len(numbers) = 7

\* the dates of a table are pairwise different
DistinctDates(rows) ==
    \A i, j \in 1..Len(rows) : i # j => rows[i].date # rows[j].date

\* C11: with one updater process at a time, whatever runs it makes, an INSERT
\* is only ever issued for a date strictly greater than every date in the
\* table, so a row that was inserted has a date above all rows before it and
\* no two rows share a date; the table does not have to refuse anything.
C11_NoDuplicateInsert ==
    /\ pc = "insert" => \A i \in 1..Len(store) : StrLess(store[i].date, newDate)
    /\ \A j \in 1..Len(store) :
          j > Len(before) => \A i \in 1..(j - 1) : StrLess(store[i].date, store[j].date)
    /\ DistinctDates(store)

\* C11 witness: an INSERT is about to be issued on a table whose only row was
\* inserted by an earlier attempt.
C11_Witness ==
    /\ pc = "insert"
    /\ Len(store) = 1
    /\ Len(ledger) = 1
    /\ runInserted # {}
    /\ StrLess(store[1].date, newDate)

\* the second process inserted the date of this attempt between the
\* attempt's read of the latest date and its own INSERT of that date
RacedOn ==
    /\ pc = "return"
    /\ InTrail("Persisting")
    /\ newDate \notin Dates(before)
    /\ \E i \in 1..Len(store) :
          i > Len(before) /\ store[i] = Row(newDate, RivalNumbers)
    /\ \A f \in runInserted : f.date # newDate

\* C12: when a second process inserts date D between an attempt's read of
\* the latest date and the attempt's INSERT of D, the keyed table refuses the
\* second INSERT, the attempt returns the error of stmt.Exec, and the table
\* holds exactly one row dated D, with the numbers of the process that
\* inserted first; the table never holds two rows of one date.
C12_DuplicateReported ==
    /\ RacedOn =>
          /\ err = "persist"
          /\ outcome = "Error"
          /\ Cardinality(RowsDated(store, newDate)) = 1
          /\ \A i \in RowsDated(store, newDate) : store[i] = Row(newDate, RivalNumbers)
    /\ store = ledger
    /\ DistinctDates(store)

\* C12 witness: the attempt had read a latest date below D and extracted D
\* with numbers of its own, the second process inserted D first, and the
\* attempt's INSERT was refused.
C12_Witness ==
    /\ RacedOn
    /\ err = "persist"
    /\ StrLess(oldDate, newDate)
    /\ numbers = SubSeq(TokenTable, 1, 7)
    /\ MainOf(store[Len(store)]) # SubSeq(numbers, 1, 5)
    /\ Cardinality(RowsDated(store, newDate)) = 1

\* the numbers a sequence of decimal tokens stands for
ValuesOf(toks) == [i \in 1..Len(toks) |-> DigitsToNat(toks[i])]

\* the last request was a lookup of this date that the database did not fail
LookedUp(date) ==
    /\ request.method = "GET"
    /\ request.route = "/results/date/"
    /\ request.rest = date
    /\ ~request.fault

\* C13: round trip: for every row the table was ever given, a later
\* GET /results/date/{date} with the row's date answers 200 with one result:
\* the row's date as stored, the numbers of its five number columns in column
\* order, and the numbers of its two star columns, whatever rows were
\* inserted after it.
C13_RoundTrip ==
    \A k \in 1..Len(ledger) :
        LookedUp(ledger[k].date) =>
            /\ reply.status = 200
            /\ Len(reply.results) = 1
            /\ reply.results[1].Date = ledger[k].date
            /\ reply.results[1].Numbers = ValuesOf(MainOf(ledger[k]))
            /\ reply.results[1].Stars = ValuesOf(StarsOf(ledger[k]))

\* C13 witness: the CSV row 29-Dec-2023,07,21,30,33,50,02,10 was persisted,
\* another row was inserted after it, and the lookup of 2023-12-29 answers
\* with 7 21 30 33 50 and 2 10.
C13_Witness ==
    /\ Len(store) >= 2
    /\ LookedUp(store[1].date)
    /\ MainOf(store[1]) = SubSeq(AltTokens, 1, 5)
    /\ reply.status = 200
    /\ reply.results[1].Date = <<"2","0","2","3","-","1","2","-","2","9">>
    /\ reply.results[1].Numbers = <<7, 21, 30, 33, 50>>
    /\ reply.results[1].Stars = <<2, 10>>

\* C14: the read service only reads: a step in which it answers a request,
\* whatever the route, the method, the parameter and the format, leaves the
\* rows of the table as they are and leaves the updater where it is: no run
\* is started, no attempt is made, nothing is queued.
C14_ReadOnly ==
    [][request' # NoRequest =>
          /\ store' = store
          /\ ledger' = ledger
          /\ pc' = pc
          /\ queue' = queue
          /\ attempted' = attempted
          /\ fetched' = fetched
          /\ trail' = trail
          /\ UNCHANGED updaterVars]_vars

\* C14 witness: a POST with a format parameter was answered while the table
\* held rows and no updater was running.
C14_Witness ==
    /\ request.method = "POST"
    /\ request.route = "/results"
    /\ request.format # <<>>
    /\ reply.status # 0
    /\ pc = "stopped"
    /\ Len(store) >= 2
    /\ store = ledger

\* a request for one of the six routes itself, which the database serves
RouteRequested ==
    /\ request # NoRequest
    /\ ~request.fault
    /\ request.route = "/" => request.rest = <<>>

\* the route takes a parameter, and the request's is a calendar date written
\* YYYY-MM-DD, a year written YYYY, or a month written YYYY-MM
WellFormed ==
    LET p == request.rest
        digitsAt(I) == \A i \in I : IsDigit(p[i])
        num(a, b) == DigitsToNat(SubSeq(p, a, b))
    IN  CASE request.route = "/results/date/" ->
                /\ Len(p) = 10 /\ p[5] = "-" /\ p[8] = "-"
                /\ digitsAt({1, 2, 3, 4, 6, 7, 9, 10})
                /\ num(6, 7) \in 1..12
                /\ num(9, 10) \in 1..DaysIn(num(6, 7), num(1, 4))
          [] request.route = "/results/year/" ->
                Len(p) = 4 /\ digitsAt(1..4)
          [] request.route = "/results/month/" ->
                /\ Len(p) = 7 /\ p[5] = "-"
                /\ digitsAt({1, 2, 3, 4, 6, 7})
                /\ num(6, 7) \in 1..12
          [] OTHER -> TRUE

\* the rows of the table the request is about
Matching ==
    LET p == request.rest
    IN  {i \in 1..Len(store) :
            CASE request.route = "/results/date/" -> store[i].date = p
              [] request.route \in {"/results/year/", "/results/month/"} ->
                    IsPrefix(p \o <<"-">>, store[i].date)
              [] OTHER -> TRUE}

\* C15 as claimed: on each of the six routes, "/" included, a request that is
\* not a GET is answered 405, a GET whose date, year or month is missing or
\* malformed 400, a well-formed GET that matches no row 404, and a
\* well-formed GET that matches at least one row 200.
C15_StatusClasses ==
    RouteRequested =>
        reply.status =
            IF request.method # "GET" THEN 405
            ELSE IF ~WellFormed THEN 400
            ELSE IF Matching = {} THEN 404
            ELSE 200

\* an attempt on source 5 has gone through the extraction of a fetched file
CsvExtracted ==
    /\ siteID = 5
    /\ response.kind = "csv"
    /\ InTrail("Extracting")

\* the text is an integer: digits, with or without a sign before them
IntegerText(s) ==
    \/ s # <<>> /\ AllDigits(s)
    \/ Len(s) > 1 /\ s[1] \in {"+", "-"} /\ AllDigits(SubSeq(s, 2, Len(s)))

\* the file has no data row, or a data row of fewer than 8 columns, or a
\* value that is not an integer in one of the columns 1..7
CsvUnusable(rows) ==
    \/ Len(rows) < 2
    \/ Len(rows[2]) < 8
    \/ \E i \in 2..8 : ~IntegerText(rows[2][i])

\* dd-Mon-yyyy text and YYYY-MM-DD text that name the same day
SameDay(raw, iso) ==
    /\ Len(raw) = 11 /\ Len(iso) = 10
    /\ SubSeq(iso, 1, 4) = SubSeq(raw, 8, 11)
    /\ SubSeq(iso, 9, 10) = SubSeq(raw, 1, 2)
    /\ iso[5] = "-" /\ iso[8] = "-"
    /\ \E m \in 1..12 : /\ SameFold(MonthNames[m], SubSeq(raw, 4, 6))
                        /\ SubSeq(iso, 6, 7) = Pad(m, 2)

ScenarioB ==
    <<CsvHeader,
      << <<"2","2","-","J","a","n","-","2","0","2","4">>, <<"3">>, <<"1","7">>,
         <<"2","2">>, <<"4","1">>, <<"4","9">>, <<"5">>, <<"1","1">> >> >>

\* C16: source 5: the first row of the file is dropped whatever it holds and
\* the second row is the draw, later rows are not looked at: its column 0,
\* dd-Mon-yyyy, gives the canonical date, its columns 1..7 the numbers, which
\* are persisted as main numbers (1..5) and stars (6..7) in column order; the
\* file DrawDate,Ball1..Star2 / 22-Jan-2024,3,17,22,41,49,5,11 gives
\* 2024-01-22 with 3 17 22 41 49 and 5 11; a file with no data row, with a
\* data row of fewer than 8 columns, or with a non-integer in columns 1..7
\* ends the attempt in an error and nothing is inserted.
C16_CsvSource ==
    CsvExtracted =>
        LET rows == response.rows
        IN  /\ (newDate # <<>>) =>
                  /\ Len(rows) >= 2 /\ Len(rows[2]) >= 8
                  /\ SameDay(rows[2][1], newDate)
                  /\ numbers = SubSeq(rows[2], 2, 8)
            /\ outcome = "Persisted" =>
                  /\ store[Len(store)].date = newDate
                  /\ MainOf(store[Len(store)]) = SubSeq(rows[2], 2, 6)
                  /\ StarsOf(store[Len(store)]) = SubSeq(rows[2], 7, 8)
            /\ rows = ScenarioB =>
                  /\ newDate = <<"2","0","2","4","-","0","1","-","2","2">>
                  /\ SubSeq(numbers, 1, 5) = << <<"3">>, <<"1","7">>, <<"2","2">>, <<"4","1">>, <<"4","9">> >>
                  /\ SubSeq(numbers, 6, 7) = << <<"5">>, <<"1","1">> >>
            /\ CsvUnusable(rows) =>
                  /\ err # "" /\ outcome = "Error"
                  /\ pc \notin {"compare", "insert"}
                  /\ store = before
                  /\ ~InTrail("Persisting")

\* C16 witness: the file of Scenario B was fetched and persisted as
\* 2024-01-22 with stars 5 11.
C16_Witness ==
    /\ CsvExtracted
    /\ response.rows = ScenarioB
    /\ outcome = "Persisted"
    /\ store[Len(store)].date = <<"2","0","2","4","-","0","1","-","2","2">>
    /\ StarsOf(store[Len(store)]) = << <<"5">>, <<"1","1">> >>

\* the errors runUpdate returns before it reaches the INSERT
EarlyErrors ==
    {"query", "fetch", "unsupported", "locate-date", "parse-date", "locate-numbers",
     "count-numbers", "csv-header", "csv-nodata", "csv-record", "csv-columns",
     "non-numeric"}

\* C17: the table changes only when an attempt persists: while an attempt
\* runs, and when it has ended in SkipSame, in SkipStale or in an error (of
\* the latest-date query, the fetch, the location or parsing of the date, the
\* location of the numbers, the count validation, an unsupported site id, or
\* the INSERT itself), the table is exactly what it was when the attempt
\* began; an attempt that persists has added exactly one row, its own.
C17_StoreFrame ==
    /\ pc \in {"query", "fetch", "extract", "compare", "insert"} => store = before
    /\ outcome \in {"SkipSame", "SkipStale", "Error"} => store = before
    /\ (outcome = "Error" /\ err # "persist") => err \in EarlyErrors /\ ~InTrail("Persisting")
    /\ store # before =>
          /\ outcome = "Persisted"
          /\ InTrail("Persisting")
          /\ store = Append(before, Row(newDate, numbers))
    /\ outcome = "Persisted" => Len(store) = Len(before) + 1

\* C17 witness: an attempt on a table with rows ended in the count error and
\* left the table as it was.
C17_Witness ==
    /\ pc = "return"
    /\ err = "count-numbers"
    /\ outcome = "Error"
    /\ store # <<>>
    /\ store = before

\* the attempt began on a table without rows
OnEmptyTable == before = <<>> /\ InTrail("ReadLatest")

\* C18: on a table without rows the latest-date query is not an error: it
\* can always go on to the fetch, and the latest date it gives is the empty
\* string; every date an attempt extracts compares strictly greater than it,
\* so the attempt never resolves to SkipSame or SkipStale, and an attempt
\* that extracted a date and exactly 7 numbers persists them as the first
\* row (unless the INSERT itself fails in the database).
C18_EmptyStore ==
    /\ (pc = "query" /\ store = <<>>) => ENABLED (QueryLatest /\ pc' = "fetch")
    /\ (OnEmptyTable /\ err # "query") => oldDate = <<>>
    /\ (OnEmptyTable /\ HasExtracted) => StrLess(oldDate, newDate) /\ newDate # oldDate
    /\ OnEmptyTable => outcome \notin {"SkipSame", "SkipStale"}
    /\ (OnEmptyTable /\ pc = "return" /\ HasExtracted /\ Len(numbers) = 7 /\ err # "persist")
          => /\ err = ""
             /\ outcome = "Persisted"
             /\ store = <<Row(newDate, numbers)>>

\* C18 witness: the first attempt on an empty table read an empty latest
\* date, extracted a date with 7 numbers and persisted them as the only row.
C18_Witness ==
    /\ OnEmptyTable
    /\ pc = "return"
    /\ oldDate = <<>>
    /\ Len(numbers) = 7
    /\ outcome = "Persisted"
    /\ err = ""
    /\ store = <<Row(newDate, numbers)>>

====
